---- MODULE Spec2Model ----
(***************************************************************************)
(* Model of the retry package of thriftgowrap: Retrier (NewRetrier, its    *)
(* options, Retrier.Do) and the backoff strategies a Retrier pauses with;  *)
(* and of the naming of the code generator (titleCase).                    *)
(*                                                                         *)
(* Spec           NewRetrier, then Do calls of one caller                  *)
(* SpecFair       Spec, with every Do call that has begun going on         *)
(* SpecBackoff    the strategies by themselves: New, then Backoff or       *)
(*                getDuration calls with any index                         *)
(* SpecConcurrent two goroutines calling Do on one Retrier                 *)
(* SpecClient     NewRetrier, then calls of a generated RPC client method  *)
(* SpecTitleCase  the code generator's titleCase, applied to an identifier *)
(*                                                                         *)
(* Durations are counted in milliseconds, and the machine word of the      *)
(* model is 32 bits wide (the widest the model checker evaluates), so      *)
(* MaxInt64 and numUint64Bits stand for the bounds of that word; every     *)
(* bounds check of the code is the same expression at that width.          *)
(* rand.Float64() is drawn from the fractions k/RandDen, 0 <= k < RandDen, *)
(* and the float64 products are taken exactly and then truncated, as the   *)
(* int64() conversion truncates.  Do's attempt counter has a range of its   *)
(* own, 0..MaxUint64, so that a run with the largest maxAttempts is short. *)
(***************************************************************************)
EXTENDS Integers, Sequences, FiniteSets, TLC

\* ---------------------------------------------------------------- bounds
\* Largest attempt count handed to MaxAttemptsOption.
MaxAttemptsBound == 4
\* Largest number of options handed to one NewRetrier call.
MaxOptions == 3
\* Number of Do calls a caller makes on the Retrier, one after another.
MaxDoCalls == 2
\* rand.Float64() takes the values k/RandDen for k in 0..RandDen-1.
RandDen == 2

\* ------------------------------------------------------- program constants
defaultMaxAttempts == 1
numUint64Bits == 32
MaxInt64 == 2147483647
DefaultMinWait == 500
DefaultMaxWait == 60000

\* The goroutines that call Do.
Callers == {"main"}

\* ------------------------------------------------------------ error values
\* An error value is identified by the invocation that created it: every
\* errors.New call yields a distinct value.
NilErr == [kind |-> "nil", n |-> 0]
NewErr(kind, n) == [kind |-> kind, n |-> n]

\* ---------------------------------------------------------------- predicates
AnyErr(err) == err # NilErr

\* The predicates a caller hands to RetriableOption: AnyErr itself, the
\* test's func(error) bool { return false }, a predicate that retries only
\* transient errors, and nil.
Predicates == {"AnyErr", "never", "isTransient", "nil"}

CallIsRetriable(p, err) ==
    CASE p = "AnyErr"      -> AnyErr(err)
      [] p = "never"       -> FALSE
      [] p = "isTransient" -> err.kind = "transient"

\* ------------------------------------------------------------------ backoffs
NoFactory == [kind |-> "nil", minWait |-> 0, maxWait |-> 0, wait |-> 0,
              jitter |-> FALSE, f |-> "none"]

FunctionalBackoff(f) == [NoFactory EXCEPT !.kind = "FunctionalBackoff", !.f = f]

NoopBackoff == FunctionalBackoff("noop")

NewFixedBackoff(wait) == [NoFactory EXCEPT !.kind = "FixedBackoff", !.wait = wait]

NewDecorrelatedExponentialBackoff(minWait, maxWait) ==
    [NoFactory EXCEPT !.kind = "DecorrelatedExponentialBackoff",
                      !.minWait = minWait, !.maxWait = maxWait]

NewExponentialBackoff(minWait, maxWait) ==
    [NoFactory EXCEPT !.kind = "ExponentialBackoff",
                      !.minWait = minWait, !.maxWait = maxWait, !.jitter = TRUE]

DefaultBackoff == NewDecorrelatedExponentialBackoff(DefaultMinWait, DefaultMaxWait)

\* The factories a caller hands to BackoffOption.
Factories ==
    { DefaultBackoff, FunctionalBackoff("backoffFunc"), NoopBackoff,
      NewFixedBackoff(1000), NewExponentialBackoff(100, 30000), NoFactory }

minInt64(a, b) == IF a < b THEN a ELSE b

maxInt64(a, b) == IF a > b THEN a ELSE b

\* Division of the code: truncated towards zero.
Quot(a, b) == IF (a >= 0) = (b > 0) THEN (IF a >= 0 THEN a ELSE -a) \div (IF b > 0 THEN b ELSE -b)
              ELSE -((IF a >= 0 THEN a ELSE -a) \div (IF b > 0 THEN b ELSE -b))

\* The least value of the word.
MinInt64 == -MaxInt64 - 1

\* a + b in the word: the sum wraps around when it leaves the word.
Add64(a, b) ==
    IF a > 0 /\ b > 0 /\ a > MaxInt64 - b
    THEN ((a - (MaxInt64 - b)) - 1) + MinInt64
    ELSE IF a < 0 /\ b < 0 /\ a < MinInt64 - b
    THEN ((a - (MinInt64 - b)) + MaxInt64) + 1
    ELSE a + b

\* a * 3 in the word: the product wraps around as the code's int64
\* multiplication does.
Triple64(a) == Add64(Add64(a, a), a)

\* a * (1 << n) in the word, for 0 <= n < numUint64Bits - 1: the bits of a
\* below bit numUint64Bits-1-n move up by n, that bit becomes the sign, and
\* the bits above it are lost, as in the code's int64 multiplication.
Shl64(a, n) ==
    IF n = 0
    THEN a
    ELSE LET low == a % (2 ^ (numUint64Bits - 1 - n))
             bit == (a \div (2 ^ (numUint64Bits - 1 - n))) % 2
         IN  low * (2 ^ n) + (IF bit = 1 THEN MinInt64 ELSE 0)

\* int64(float64(a) * num/den) for 0 <= num <= den: exact product, truncated.
Scale(a, num, den) ==
    LET m == IF a >= 0 THEN a ELSE -a
        v == (m \div den) * num + ((m % den) * num) \div den
    IN  IF a >= 0 THEN v ELSE -v

\* 1 << iteration
Pow2(n) == 2 ^ n

\* A per-run decorrelatedExponentialBackoff instance.
NewInstance(b) == [minWait |-> b.minWait, maxWait |-> b.maxWait, lastWait |-> 0]

\* Mutant: a zero last wait is not special-cased.
DecorrelatedGetDuration_NoFirst(b, k) ==
    LET max == IF b.lastWait > Quot(MaxInt64, 3) THEN MaxInt64 ELSE Triple64(b.lastWait)
        duration == minInt64(b.maxWait, Scale(max - b.minWait, k, RandDen) + b.minWait)
    IN  [d |-> duration, b |-> [b EXCEPT !.lastWait = b.minWait]]

\* decorrelatedExponentialBackoff.getDuration with rand.Float64() = k/RandDen:
\* the duration returned and the instance as the call leaves it.
DecorrelatedGetDuration(b, k) ==
    IF b.lastWait = 0
    THEN [d |-> b.minWait, b |-> [b EXCEPT !.lastWait = b.minWait]]
    ELSE LET max == IF b.lastWait > Quot(MaxInt64, 3) THEN MaxInt64 ELSE Triple64(b.lastWait)
             duration == minInt64(b.maxWait, Scale(max - b.minWait, k, RandDen) + b.minWait)
         IN  [d |-> duration, b |-> b]

\* Mutant: the overflow guard also fires when minWait << iteration is exactly
\* maxWait / multiplier.
ExponentialGetDuration_GuardOffByOne(b, iteration, k) ==
    IF iteration >= numUint64Bits - 1
    THEN b.maxWait
    ELSE LET multiplier == Pow2(iteration)
             duration == IF b.minWait >= Quot(b.maxWait, multiplier)
                         THEN b.maxWait
                         ELSE Shl64(b.minWait, iteration)
             jittered == IF b.jitter
                         THEN Scale(duration, k + RandDen, 2 * RandDen)
                         ELSE duration
         IN  maxInt64(jittered, b.minWait)

\* Mutant: the jitter factor is rand.Float64() itself, not 0.5 * (rand + 1).
ExponentialGetDuration_FullJitter(b, iteration, k) ==
    IF iteration >= numUint64Bits - 1
    THEN b.maxWait
    ELSE LET multiplier == Pow2(iteration)
             duration == IF b.minWait > Quot(b.maxWait, multiplier)
                         THEN b.maxWait
                         ELSE Shl64(b.minWait, iteration)
             jittered == IF b.jitter
                         THEN Scale(duration, k, RandDen)
                         ELSE duration
         IN  maxInt64(jittered, b.minWait)

\* ExponentialBackoff.getDuration with rand.Float64() = k/RandDen.
ExponentialGetDuration(b, iteration, k) ==
    IF iteration >= numUint64Bits - 1
    THEN b.maxWait
    ELSE LET multiplier == Pow2(iteration)
             duration == IF b.minWait > Quot(b.maxWait, multiplier)
                         THEN b.maxWait
                         ELSE Shl64(b.minWait, iteration)
             jittered == IF b.jitter
                         THEN Scale(duration, k + RandDen, 2 * RandDen)
                         ELSE duration
         IN  maxInt64(jittered, b.minWait)

\* Mutant: the pause doubles after the first attempt.
FixedBackoff_Backoff_Doubling(b, iteration) ==
    [d |-> IF iteration = 0 THEN b.wait ELSE 2 * b.wait, b |-> b]

\* FixedBackoff.Backoff(iteration): the time slept and the receiver as the
\* call leaves it.
FixedBackoff_Backoff(b, iteration) == [d |-> b.wait, b |-> b]

\* Mutant: the strategy keeps the duration it returned as its next minWait.
ExponentialBackoff_Backoff_Stateful(b, iteration, k) ==
    [d |-> ExponentialGetDuration(b, iteration, k),
     b |-> [b EXCEPT !.minWait = ExponentialGetDuration(b, iteration, k)]]

\* ExponentialBackoff.Backoff(iteration) with rand.Float64() = k/RandDen: the
\* time slept and the receiver as the call leaves it.
ExponentialBackoff_Backoff(b, iteration, k) ==
    [d |-> ExponentialGetDuration(b, iteration, k), b |-> b]

\* FunctionalBackoff.Backoff(iteration): f(iteration) is called, nothing is
\* slept, and the receiver is as it was.
FunctionalBackoff_Backoff(b, iteration) == [d |-> 0, b |-> b]

\* ------------------------------------------------------------------- Retrier
NoOption == [opt |-> "none", attempts |-> 0, isRetriable |-> "nil", backoff |-> NoFactory]

MaxAttemptsOption(attempts) ==
    [NoOption EXCEPT !.opt = "MaxAttemptsOption", !.attempts = attempts]

RetriableOption(isRetriable) ==
    [NoOption EXCEPT !.opt = "RetriableOption", !.isRetriable = isRetriable]

BackoffOption(backoff) ==
    [NoOption EXCEPT !.opt = "BackoffOption", !.backoff = backoff]

\* Mutant: RetriableOption rebuilds the Retrier around the predicate.
ApplyOption_Reset(r, o) ==
    CASE o.opt = "MaxAttemptsOption" -> [r EXCEPT !.maxAttempts = o.attempts]
      [] o.opt = "RetriableOption"   -> [r EXCEPT !.isRetriable = o.isRetriable,
                                                  !.maxAttempts = defaultMaxAttempts]
      [] o.opt = "BackoffOption"     -> [r EXCEPT !.backoffFactory = o.backoff]

\* option(r): what the closure an option constructor returned does to r.
ApplyOption(r, option) ==
    CASE option.opt = "MaxAttemptsOption" -> [r EXCEPT !.maxAttempts = option.attempts]
      [] option.opt = "RetriableOption"   -> [r EXCEPT !.isRetriable = option.isRetriable]
      [] option.opt = "BackoffOption"     -> [r EXCEPT !.backoffFactory = option.backoff]

\* The Retrier NewRetrier starts from, before any option is applied.
DefaultRetrier ==
    [maxAttempts    |-> defaultMaxAttempts,
     isRetriable    |-> "AnyErr",
     backoffFactory |-> DefaultBackoff]

\* The options a caller can pass.
Options ==
    { MaxAttemptsOption(n) : n \in 0..MaxAttemptsBound }
    \cup { RetriableOption(p) : p \in Predicates }
    \cup { BackoffOption(f) : f \in Factories }

\* ---------------------------------------------------------------- operations
\* The operations a caller passes to Do: makeFn(i) of the tests, which fails
\* its first i invocations, and an operation free to return nil, a transient
\* error or a permanent error on each invocation.
Fns == { [kind |-> "makeFn", i |-> k] : k \in 0..MaxAttemptsBound } \cup { [kind |-> "any", i |-> 0] }

\* The results invocation number n of operation f can return, with count the
\* closure's counter before the invocation.
FnResults(f, count, n) ==
    IF f.kind = "makeFn"
    THEN IF count < f.i THEN { NewErr("err", n) } ELSE { NilErr }
    ELSE { NilErr, NewErr("transient", n), NewErr("permanent", n) }

\* makeFn's counter after an invocation that found it at count.
FnCount(f, count) ==
    IF f.kind = "makeFn" /\ count < f.i THEN count + 1 ELSE count

\* --------------------------------------------------------------------- state
VARIABLES
    stage,       \* "NewRetrier" while the Retrier is being built, then "built"
    option,      \* NewRetrier's loop variable: the option applied last
    nOptions,    \* NewRetrier's loop index: the number of options applied
    retrier,     \* the Retrier (r of NewRetrier, then the value it returned)
    instances,   \* the decorrelatedExponentialBackoff instances allocated so far
    iterations,  \* the slice the test's backoffFunc appends to
    panicked,    \* the process has panicked
    doCalls,     \* per caller: the number of Do calls begun
    pc,          \* per caller: where its Do call stands
    fn,          \* per caller: the operation passed to Do
    count,       \* per caller: the counter of the operation's closure
    err,         \* per caller: Do's local err
    i,           \* per caller: Do's local i
    backoff,     \* per caller: Do's local backoff
    ret,         \* per caller: the value Do returned
    trace,       \* per caller: the calls its Do call has made, in order (history)
    transports,  \* the transports GetTransport has handed out: "open" or "closed"
    transport,   \* per caller: the closure's local transport (0: none)
    wire,        \* per caller: what each attempt of its run did on the wire (history)
    ident,       \* the identifier handed to titleCase, a sequence of characters
    goName       \* what titleCase returned for ident, once it has been called

vars == <<stage, option, nOptions, retrier, instances, iterations, panicked,
          doCalls, pc, fn, count, err, i, backoff, ret, trace,
          transports, transport, wire, ident, goName>>

\* The state of the generated client's closure.
rpcVars == <<transports, transport, wire>>

\* The state of the code generator's naming: titleCase's argument and result.
genVars == <<ident, goName>>

ctorVars == <<stage, option, nOptions, retrier>>

NoInst == [kind |-> "none", id |-> 0]

NoFn == [kind |-> "none", i |-> 0]

\* titleCase has not been called yet.
NoName == [called |-> FALSE, val |-> <<>>]

\* One call made by Do: New, fn or Backoff, with the instance involved, the
\* index passed, the result returned and the time slept.
Ev(op, idx, inst, res, d) == [op |-> op, i |-> idx, inst |-> inst, res |-> res, d |-> d]

\* Mutant: the decorrelated factory hands every run the instance it allocated
\* first.
FactoryNew_Singleton(factory, insts) ==
    IF factory.kind = "DecorrelatedExponentialBackoff"
    THEN IF Len(insts) = 0
         THEN [inst    |-> [kind |-> "decorrelatedExponentialBackoff", id |-> 1],
               insts   |-> Append(insts, NewInstance(factory)),
               factory |-> factory]
         ELSE [inst    |-> [kind |-> "decorrelatedExponentialBackoff", id |-> 1],
               insts   |-> insts,
               factory |-> factory]
    ELSE [inst |-> [kind |-> factory.kind, id |-> 0], insts |-> insts, factory |-> factory]

\* Mutant: New of the decorrelated factory raises the factory's minWait to
\* its maxWait for the runs to come.
FactoryNew_Advancing(factory, insts) ==
    IF factory.kind = "DecorrelatedExponentialBackoff"
    THEN [inst    |-> [kind |-> "decorrelatedExponentialBackoff", id |-> Len(insts) + 1],
          insts   |-> Append(insts, NewInstance(factory)),
          factory |-> [factory EXCEPT !.minWait = factory.maxWait]]
    ELSE [inst |-> [kind |-> factory.kind, id |-> 0], insts |-> insts, factory |-> factory]

\* r.backoffFactory.New(): a fresh instance for the decorrelated factory, the
\* receiver itself for the others; and the factory as the call leaves it.
FactoryNew(factory, insts) ==
    IF factory.kind = "DecorrelatedExponentialBackoff"
    THEN [inst    |-> [kind |-> "decorrelatedExponentialBackoff", id |-> Len(insts) + 1],
          insts   |-> Append(insts, NewInstance(factory)),
          factory |-> factory]
    ELSE [inst |-> [kind |-> factory.kind, id |-> 0], insts |-> insts, factory |-> factory]

\* maxAttempts and Do's counter i are uint64.  A run of 2^64 attempts cannot be
\* followed, so the type is scaled to the attempt counts of the model: its
\* largest value is the largest maxAttempts a Retrier is built with, and i++
\* and i+1 wrap to 0 past it as they do past 2^64-1.
MaxUint64 == MaxAttemptsBound

Inc64(n) == (n + 1) % (MaxUint64 + 1)

\* Mutants of the loop condition: one attempt too few, one too many.
LoopCond_OneShort(idx, maxAttempts) == idx + 1 < maxAttempts

LoopCond_OneMore(idx, maxAttempts) == idx <= maxAttempts

\* The loop condition of Do.
LoopCond(idx, maxAttempts) == idx < maxAttempts

\* Mutant: back off after the last permitted attempt too.
ShouldBackoff_Always(idx, maxAttempts) == idx < maxAttempts

\* "ensure we will still make another attempt before backing off"
ShouldBackoff(idx, maxAttempts) == Inc64(idx) < maxAttempts

\* Mutant: the index of the next attempt is passed.
BackoffArg_Next(idx) == idx + 1

\* The argument of backoff.Backoff(i).
BackoffArg(idx) == idx

\* The number of fn invocations in a trace.
Invocations(t) == Cardinality({ j \in 1..Len(t) : t[j].op = "fn" })

\* NewRetrier has set r to the defaults and stands before its loop.
Init ==
    /\ stage = "NewRetrier"
    /\ option = NoOption
    /\ nOptions = 0
    /\ retrier = DefaultRetrier
    /\ instances = <<>>
    /\ iterations = <<>>
    /\ panicked = FALSE
    /\ doCalls = [c \in Callers |-> 0]
    /\ pc = [c \in Callers |-> "idle"]
    /\ fn = [c \in Callers |-> NoFn]
    /\ count = [c \in Callers |-> 0]
    /\ err = [c \in Callers |-> NilErr]
    /\ i = [c \in Callers |-> 0]
    /\ backoff = [c \in Callers |-> NoInst]
    /\ ret = [c \in Callers |-> NilErr]
    /\ trace = [c \in Callers |-> <<>>]
    /\ transports = <<>>
    /\ transport = [c \in Callers |-> 0]
    /\ wire = [c \in Callers |-> <<>>]
    /\ ident = <<>>
    /\ goName = NoName

\* One iteration of NewRetrier's loop: option(r).
NewRetrier_Option(o) ==
    /\ stage = "NewRetrier"
    /\ nOptions < MaxOptions
    /\ option' = o
    /\ nOptions' = nOptions + 1
    /\ retrier' = ApplyOption(retrier, o)
    /\ UNCHANGED <<stage, instances, iterations, panicked,
                   doCalls, pc, fn, count, err, i, backoff, ret, trace>>
    /\ UNCHANGED <<rpcVars, genVars>>

\* NewRetrier's loop is over: return r.
NewRetrier_Return ==
    /\ stage = "NewRetrier"
    /\ stage' = "built"
    /\ option' = NoOption
    /\ nOptions' = 0
    /\ UNCHANGED <<retrier, instances, iterations, panicked,
                   doCalls, pc, fn, count, err, i, backoff, ret, trace>>
    /\ UNCHANGED <<rpcVars, genVars>>

\* Do is called with an operation f of fs: var err, var i, backoff := New().
Do_Begin(c, fs) ==
    /\ stage = "built"
    /\ ~panicked
    /\ pc[c] \in {"idle", "returned"}
    /\ doCalls[c] < MaxDoCalls
    /\ doCalls' = [doCalls EXCEPT ![c] = @ + 1]
    /\ \E f \in fs : fn' = [fn EXCEPT ![c] = f]
    /\ count' = [count EXCEPT ![c] = 0]
    /\ err' = [err EXCEPT ![c] = NilErr]
    /\ i' = [i EXCEPT ![c] = 0]
    /\ ret' = [ret EXCEPT ![c] = NilErr]
    /\ IF retrier.backoffFactory.kind = "nil"
       THEN /\ panicked' = TRUE
            /\ pc' = [pc EXCEPT ![c] = "panic"]
            /\ backoff' = [backoff EXCEPT ![c] = NoInst]
            /\ trace' = [trace EXCEPT ![c] = <<>>]
            /\ UNCHANGED <<retrier, instances>>
       ELSE LET new == FactoryNew(retrier.backoffFactory, instances)
            IN  /\ retrier' = [retrier EXCEPT !.backoffFactory = new.factory]
                /\ instances' = new.insts
                /\ backoff' = [backoff EXCEPT ![c] = new.inst]
                /\ trace' = [trace EXCEPT ![c] = <<Ev("New", 0, new.inst, NilErr, 0)>>]
                /\ pc' = [pc EXCEPT ![c] = "loop"]
                /\ UNCHANGED panicked
    /\ UNCHANGED <<stage, option, nOptions, iterations>>

\* Do is called with one of the operations of the tests.
Do_New(c) == Do_Begin(c, Fns) /\ UNCHANGED <<rpcVars, genVars>>

\* i < r.maxAttempts holds: err = fn().
Do_Call(c) ==
    /\ ~panicked
    /\ pc[c] = "loop"
    /\ LoopCond(i[c], retrier.maxAttempts)
    /\ \E res \in FnResults(fn[c], count[c], Invocations(trace[c]) + 1) :
          /\ err' = [err EXCEPT ![c] = res]
          /\ trace' = [trace EXCEPT ![c] = Append(@, Ev("fn", i[c], NoInst, res, 0))]
    /\ count' = [count EXCEPT ![c] = FnCount(fn[c], @)]
    /\ pc' = [pc EXCEPT ![c] = "classify"]
    /\ UNCHANGED <<ctorVars, instances, iterations, panicked, doCalls, fn, i, backoff, ret>>
    /\ UNCHANGED <<rpcVars, genVars>>

\* Mutant: the first error seen is returned after the loop.
Do_Exhausted_First(c) ==
    /\ ~panicked
    /\ pc[c] = "loop"
    /\ ~LoopCond(i[c], retrier.maxAttempts)
    /\ ret' = [ret EXCEPT ![c] = IF Len(trace[c]) > 1 THEN trace[c][2].res ELSE err[c]]
    /\ pc' = [pc EXCEPT ![c] = "returned"]
    /\ UNCHANGED <<ctorVars, instances, iterations, panicked, doCalls,
                   fn, count, err, i, backoff, trace>>
    /\ UNCHANGED <<rpcVars, genVars>>

\* i < r.maxAttempts fails: return err.
Do_Exhausted(c) ==
    /\ ~panicked
    /\ pc[c] = "loop"
    /\ ~LoopCond(i[c], retrier.maxAttempts)
    /\ ret' = [ret EXCEPT ![c] = err[c]]
    /\ pc' = [pc EXCEPT ![c] = "returned"]
    /\ UNCHANGED <<ctorVars, instances, iterations, panicked, doCalls,
                   fn, count, err, i, backoff, trace>>
    /\ UNCHANGED <<rpcVars, genVars>>

\* if !r.isRetriable(err) { return err }; if i+1 < r.maxAttempts ...
Do_Classify(c) ==
    /\ ~panicked
    /\ pc[c] = "classify"
    /\ IF retrier.isRetriable = "nil"
       THEN /\ panicked' = TRUE
            /\ pc' = [pc EXCEPT ![c] = "panic"]
            /\ UNCHANGED <<ret, i>>
       ELSE IF ~CallIsRetriable(retrier.isRetriable, err[c])
       THEN /\ ret' = [ret EXCEPT ![c] = err[c]]
            /\ pc' = [pc EXCEPT ![c] = "returned"]
            /\ UNCHANGED <<panicked, i>>
       ELSE IF ShouldBackoff(i[c], retrier.maxAttempts)
       THEN /\ pc' = [pc EXCEPT ![c] = "backoff"]
            /\ UNCHANGED <<panicked, ret, i>>
       ELSE /\ i' = [i EXCEPT ![c] = Inc64(@)]
            /\ pc' = [pc EXCEPT ![c] = "loop"]
            /\ UNCHANGED <<panicked, ret>>
    /\ UNCHANGED <<ctorVars, instances, iterations, doCalls, fn, count, err, backoff, trace>>
    /\ UNCHANGED <<rpcVars, genVars>>

\* Mutant: every call pauses on the instance allocated first.
BackoffReceiver_Shared(c) ==
    IF backoff[c].kind = "decorrelatedExponentialBackoff"
    THEN [backoff[c] EXCEPT !.id = 1]
    ELSE backoff[c]

\* The receiver of backoff.Backoff(i): Do's local backoff.
BackoffReceiver(c) == backoff[c]

\* backoff.Backoff(i), then i++.  The stateless strategies are their own
\* instances, so their Backoff runs on the value r.backoffFactory holds.
Do_Backoff(c) ==
    /\ ~panicked
    /\ pc[c] = "backoff"
    /\ LET b == BackoffReceiver(c)
           f == retrier.backoffFactory
           idx == BackoffArg(i[c])
       IN  \E k \in 0..(RandDen - 1) :
             CASE b.kind = "decorrelatedExponentialBackoff" ->
                    LET g == DecorrelatedGetDuration(instances[b.id], k)
                    IN  /\ instances' = [instances EXCEPT ![b.id] = g.b]
                        /\ trace' = [trace EXCEPT ![c] = Append(@, Ev("Backoff", idx, b, NilErr, g.d))]
                        /\ UNCHANGED <<retrier, iterations>>
               [] b.kind = "ExponentialBackoff" ->
                    LET g == ExponentialBackoff_Backoff(f, idx, k)
                    IN  /\ retrier' = [retrier EXCEPT !.backoffFactory = g.b]
                        /\ trace' = [trace EXCEPT ![c] = Append(@, Ev("Backoff", idx, b, NilErr, g.d))]
                        /\ UNCHANGED <<instances, iterations>>
               [] b.kind = "FixedBackoff" ->
                    LET g == FixedBackoff_Backoff(f, idx)
                    IN  /\ retrier' = [retrier EXCEPT !.backoffFactory = g.b]
                        /\ trace' = [trace EXCEPT ![c] = Append(@, Ev("Backoff", idx, b, NilErr, g.d))]
                        /\ UNCHANGED <<instances, iterations>>
               [] b.kind = "FunctionalBackoff" ->
                    LET g == FunctionalBackoff_Backoff(f, idx)
                    IN  /\ retrier' = [retrier EXCEPT !.backoffFactory = g.b]
                        /\ iterations' = IF g.b.f = "backoffFunc" THEN Append(iterations, idx)
                                         ELSE iterations
                        /\ trace' = [trace EXCEPT ![c] = Append(@, Ev("Backoff", idx, b, NilErr, g.d))]
                        /\ UNCHANGED instances
    /\ i' = [i EXCEPT ![c] = Inc64(@)]
    /\ pc' = [pc EXCEPT ![c] = "loop"]
    /\ UNCHANGED <<stage, option, nOptions, panicked, doCalls, fn, count, err, backoff, ret>>
    /\ UNCHANGED <<rpcVars, genVars>>

Next ==
    \/ \E o \in Options : NewRetrier_Option(o)
    \/ NewRetrier_Return
    \/ \E c \in Callers :
        \/ Do_New(c)
        \/ Do_Call(c)
        \/ Do_Exhausted(c)
        \/ Do_Classify(c)
        \/ Do_Backoff(c)

Spec == Init /\ [][Next]_vars

\* A Do call that has begun goes on: the operation, the predicate and
\* Backoff return when they are invoked, and the goroutine is scheduled.
\* (Whether and when Do is called again is up to the caller.)
Do_Step(c) == Do_Call(c) \/ Do_Exhausted(c) \/ Do_Classify(c) \/ Do_Backoff(c)

SpecFair == Spec /\ \A c \in Callers : WF_vars(Do_Step(c))

\* ------------------------------------------------- the strategies by themselves
\* Largest number of getDuration calls made on one decorrelated instance.
MaxDecorrelatedCalls == 4
\* Largest number of Backoff/getDuration calls made on one stateless strategy.
MaxStatelessCalls == 2
\* The attempt indices 0..MaxIteration are passed, and the ones around the
\* width of the word.
MaxIteration == 10

\* &ExponentialBackoff{minWait: ..., maxWait: ..., jitter: ...} of the tests.
ExponentialBackoffLit(minWait, maxWait, jitter) ==
    [NewExponentialBackoff(minWait, maxWait) EXCEPT !.jitter = jitter]

\* The strategies the calls are made on: the ones of the tests, the default,
\* bounds where 3 * lastWait passes maxWait at once, bounds where 3 * lastWait
\* or minWait << i passes the width of the word, a zero minWait, and negative
\* minWait, which the constructors accept.
BackoffInputs ==
    { NewDecorrelatedExponentialBackoff(100, 30000),
      DefaultBackoff,
      NewDecorrelatedExponentialBackoff(100, 250),
      NewDecorrelatedExponentialBackoff(1000000000, MaxInt64),
      NewDecorrelatedExponentialBackoff(0, 1000),
      NewExponentialBackoff(100, 30000),
      NewExponentialBackoff(100, MaxInt64),
      ExponentialBackoffLit(100, 30000, FALSE),
      ExponentialBackoffLit(100, MaxInt64, FALSE),
      ExponentialBackoffLit(1, MaxInt64, FALSE),
      ExponentialBackoffLit(-5, 10, FALSE),
      ExponentialBackoffLit(-1073741824, 10, FALSE),
      NewDecorrelatedExponentialBackoff(-5, 10),
      NewFixedBackoff(1000),
      NewFixedBackoff(DefaultMinWait),
      FunctionalBackoff("backoffFunc"),
      NoopBackoff }

\* The attempt indices passed to Backoff and getDuration.
IterationInputs ==
    (0..MaxIteration)
    \cup { numUint64Bits - 2, numUint64Bits - 1, numUint64Bits, 500, MaxInt64 }

\* A strategy has been constructed; no call has been made on it.
InitBackoff ==
    /\ stage = "built"
    /\ option = NoOption
    /\ nOptions = 0
    /\ \E f \in BackoffInputs : retrier = [DefaultRetrier EXCEPT !.backoffFactory = f]
    /\ instances = <<>>
    /\ iterations = <<>>
    /\ panicked = FALSE
    /\ doCalls = [c \in Callers |-> 0]
    /\ pc = [c \in Callers |-> "idle"]
    /\ fn = [c \in Callers |-> NoFn]
    /\ count = [c \in Callers |-> 0]
    /\ err = [c \in Callers |-> NilErr]
    /\ i = [c \in Callers |-> 0]
    /\ backoff = [c \in Callers |-> NoInst]
    /\ ret = [c \in Callers |-> NilErr]
    /\ trace = [c \in Callers |-> <<>>]
    /\ transports = <<>>
    /\ transport = [c \in Callers |-> 0]
    /\ wire = [c \in Callers |-> <<>>]
    /\ ident = <<>>
    /\ goName = NoName

\* The number of Backoff/getDuration calls in a trace.
Calls(t) == Cardinality({ j \in 1..Len(t) : t[j].op \in {"Backoff", "getDuration"} })

\* backoff := factory.New()
Backoff_New(c) ==
    /\ pc[c] = "idle"
    /\ LET new == FactoryNew(retrier.backoffFactory, instances)
       IN  /\ retrier' = [retrier EXCEPT !.backoffFactory = new.factory]
           /\ instances' = new.insts
           /\ backoff' = [backoff EXCEPT ![c] = new.inst]
           /\ trace' = [trace EXCEPT ![c] = <<Ev("New", 0, new.inst, NilErr, 0)>>]
    /\ pc' = [pc EXCEPT ![c] = "ready"]
    /\ UNCHANGED <<stage, option, nOptions, iterations, panicked, doCalls, fn, count, err, i, ret>>
    /\ UNCHANGED <<rpcVars, genVars>>

\* backoff.getDuration() on a decorrelatedExponentialBackoff.
Decorrelated_getDuration(c) ==
    /\ pc[c] = "ready"
    /\ backoff[c].kind = "decorrelatedExponentialBackoff"
    /\ Calls(trace[c]) < MaxDecorrelatedCalls
    /\ \E k \in 0..(RandDen - 1) :
          LET g == DecorrelatedGetDuration(instances[backoff[c].id], k)
          IN  /\ instances' = [instances EXCEPT ![backoff[c].id] = g.b]
              /\ trace' = [trace EXCEPT ![c] = Append(@, Ev("getDuration", 0, backoff[c], NilErr, g.d))]
    /\ UNCHANGED <<ctorVars, iterations, panicked, doCalls, pc, fn, count, err, i, backoff, ret>>
    /\ UNCHANGED <<rpcVars, genVars>>

\* backoff.getDuration(iteration) on an ExponentialBackoff.
Exponential_getDuration(c) ==
    /\ pc[c] = "ready"
    /\ backoff[c].kind = "ExponentialBackoff"
    /\ Calls(trace[c]) < MaxStatelessCalls
    /\ \E iteration \in IterationInputs, k \in 0..(RandDen - 1) :
          LET g == ExponentialBackoff_Backoff(retrier.backoffFactory, iteration, k)
          IN  /\ retrier' = [retrier EXCEPT !.backoffFactory = g.b]
              /\ trace' = [trace EXCEPT ![c] = Append(@, Ev("getDuration", iteration, backoff[c], NilErr, g.d))]
    /\ UNCHANGED <<stage, option, nOptions, instances, iterations, panicked,
                   doCalls, pc, fn, count, err, i, backoff, ret>>
    /\ UNCHANGED <<rpcVars, genVars>>

\* backoff.Backoff(iteration) on a FixedBackoff.
Fixed_Backoff(c) ==
    /\ pc[c] = "ready"
    /\ backoff[c].kind = "FixedBackoff"
    /\ Calls(trace[c]) < MaxStatelessCalls
    /\ \E iteration \in IterationInputs :
          LET g == FixedBackoff_Backoff(retrier.backoffFactory, iteration)
          IN  /\ retrier' = [retrier EXCEPT !.backoffFactory = g.b]
              /\ trace' = [trace EXCEPT ![c] = Append(@, Ev("Backoff", iteration, backoff[c], NilErr, g.d))]
    /\ UNCHANGED <<stage, option, nOptions, instances, iterations, panicked,
                   doCalls, pc, fn, count, err, i, backoff, ret>>
    /\ UNCHANGED <<rpcVars, genVars>>

\* backoff.Backoff(iteration) on a FunctionalBackoff.
Functional_Backoff(c) ==
    /\ pc[c] = "ready"
    /\ backoff[c].kind = "FunctionalBackoff"
    /\ Calls(trace[c]) < MaxStatelessCalls
    /\ \E iteration \in IterationInputs :
          LET g == FunctionalBackoff_Backoff(retrier.backoffFactory, iteration)
          IN  /\ retrier' = [retrier EXCEPT !.backoffFactory = g.b]
              /\ iterations' = IF g.b.f = "backoffFunc" THEN Append(iterations, iteration)
                               ELSE iterations
              /\ trace' = [trace EXCEPT ![c] = Append(@, Ev("Backoff", iteration, backoff[c], NilErr, g.d))]
    /\ UNCHANGED <<stage, option, nOptions, instances, panicked,
                   doCalls, pc, fn, count, err, i, backoff, ret>>
    /\ UNCHANGED <<rpcVars, genVars>>

NextBackoff ==
    \E c \in Callers :
        \/ Backoff_New(c)
        \/ Decorrelated_getDuration(c)
        \/ Exponential_getDuration(c)
        \/ Fixed_Backoff(c)
        \/ Functional_Backoff(c)

SpecBackoff == InitBackoff /\ [][NextBackoff]_vars

\* ------------------------------------------------ concurrent runs of Do
\* The goroutines that call Do on one Retrier at the same time.
Goroutines == {"g1", "g2"}

\* The number of attempts of the Retrier the goroutines share.
SharedAttempts == 3

\* The factories of the Retrier the goroutines share: the stateful one and
\* the stateless ones.
SharedFactories ==
    { DefaultBackoff, NewDecorrelatedExponentialBackoff(100, 30000),
      NewFixedBackoff(1000), ExponentialBackoffLit(100, 30000, FALSE),
      FunctionalBackoff("backoffFunc") }

\* The operations the goroutines pass to Do: one that fails once, with one
\* pause in its run, and one that fails on every attempt, with two.
SharedFns == { [kind |-> "makeFn", i |-> 1], [kind |-> "makeFn", i |-> SharedAttempts] }

\* NewRetrier has returned the Retrier; no goroutine has called Do yet.
InitConcurrent ==
    /\ stage = "built"
    /\ option = NoOption
    /\ nOptions = 0
    /\ \E f \in SharedFactories :
          retrier = [maxAttempts    |-> SharedAttempts,
                     isRetriable    |-> "AnyErr",
                     backoffFactory |-> f]
    /\ instances = <<>>
    /\ iterations = <<>>
    /\ panicked = FALSE
    /\ doCalls = [c \in Goroutines |-> 0]
    /\ pc = [c \in Goroutines |-> "idle"]
    /\ fn = [c \in Goroutines |-> NoFn]
    /\ count = [c \in Goroutines |-> 0]
    /\ err = [c \in Goroutines |-> NilErr]
    /\ i = [c \in Goroutines |-> 0]
    /\ backoff = [c \in Goroutines |-> NoInst]
    /\ ret = [c \in Goroutines |-> NilErr]
    /\ trace = [c \in Goroutines |-> <<>>]
    /\ transports = <<>>
    /\ transport = [c \in Goroutines |-> 0]
    /\ wire = [c \in Goroutines |-> <<>>]
    /\ ident = <<>>
    /\ goName = NoName

\* The goroutines take the steps of their Do calls in any order.
NextConcurrent ==
    \E c \in Goroutines :
        \/ Do_New(c) /\ fn'[c] \in SharedFns
        \/ Do_Call(c)
        \/ Do_Exhausted(c)
        \/ Do_Classify(c)
        \/ Do_Backoff(c)

SpecConcurrent == InitConcurrent /\ [][NextConcurrent]_vars

\* ------------------------------------------------- the generated RPC client
\* The closure a generated client method passes to c.Retrier.Do.
RPCFn == [kind |-> "rpc", i |-> 0]

\* What one attempt did on the wire: the error of GetTransport, the transport
\* it returned, whether the remote method was called and with what result,
\* and whether the transport was closed.
Attempt(get, id) == [get |-> get, id |-> id, called |-> FALSE, res |-> NilErr, closed |-> FALSE]

\* The results of the remote invocation number n: success or an error of the
\* remote call.
RemoteResults(n) == { NilErr, NewErr("transient", n) }

\* The generated method is called: err = c.Retrier.Do(func() error {...}).
\* ret stands for the method's named result err, which the closure assigns
\* and which receives the value Do returns.
Method_Do(c) ==
    /\ Do_Begin(c, {RPCFn})
    /\ wire' = [wire EXCEPT ![c] = <<>>]
    /\ transport' = [transport EXCEPT ![c] = 0]
    /\ UNCHANGED <<transports, genVars>>

\* i < r.maxAttempts holds and fn() begins: client, transport, innerErr :=
\* c.getThriftClient(); if innerErr != nil { return innerErr }.
Closure_GetThriftClient(c) ==
    /\ ~panicked
    /\ pc[c] = "loop"
    /\ fn[c] = RPCFn
    /\ LoopCond(i[c], retrier.maxAttempts)
    /\ \/ /\ transports' = Append(transports, "open")
          /\ transport' = [transport EXCEPT ![c] = Len(transports) + 1]
          /\ wire' = [wire EXCEPT ![c] = Append(@, Attempt(NilErr, Len(transports) + 1))]
          /\ pc' = [pc EXCEPT ![c] = "call"]
          /\ UNCHANGED <<err, trace>>
       \/ LET innerErr == NewErr("transport", Invocations(trace[c]) + 1)
          IN  /\ err' = [err EXCEPT ![c] = innerErr]
              /\ trace' = [trace EXCEPT ![c] = Append(@, Ev("fn", i[c], NoInst, innerErr, 0))]
              /\ wire' = [wire EXCEPT ![c] = Append(@, Attempt(innerErr, 0))]
              /\ pc' = [pc EXCEPT ![c] = "classify"]
              /\ UNCHANGED <<transports, transport>>
    /\ UNCHANGED <<ctorVars, instances, iterations, panicked, doCalls, fn, count, i, backoff, ret,
                   genVars>>

\* Mutant: the closure returns a remote error at once, and closes the
\* transport only after a call that succeeded.
Closure_Method_LeakOnError(c) ==
    /\ ~panicked
    /\ pc[c] = "call"
    /\ \E res \in RemoteResults(Invocations(trace[c]) + 1) :
          /\ ret' = [ret EXCEPT ![c] = res]
          /\ wire' = [wire EXCEPT ![c][Len(wire[c])] = [@ EXCEPT !.called = TRUE, !.res = res]]
          /\ IF res = NilErr
             THEN /\ pc' = [pc EXCEPT ![c] = "deferred"]
                  /\ UNCHANGED <<err, trace>>
             ELSE /\ pc' = [pc EXCEPT ![c] = "classify"]
                  /\ err' = [err EXCEPT ![c] = res]
                  /\ trace' = [trace EXCEPT ![c] = Append(@, Ev("fn", i[c], NoInst, res, 0))]
    /\ UNCHANGED <<ctorVars, instances, iterations, panicked, doCalls, fn, count, i, backoff,
                   transports, transport, genVars>>

\* defer transport.Close() is registered; resp, err = client.Method(args).
Closure_Method(c) ==
    /\ ~panicked
    /\ pc[c] = "call"
    /\ \E res \in RemoteResults(Invocations(trace[c]) + 1) :
          /\ ret' = [ret EXCEPT ![c] = res]
          /\ wire' = [wire EXCEPT ![c][Len(wire[c])] = [@ EXCEPT !.called = TRUE, !.res = res]]
    /\ pc' = [pc EXCEPT ![c] = "deferred"]
    /\ UNCHANGED <<ctorVars, instances, iterations, panicked, doCalls, fn, count, i, backoff,
                   err, trace, transports, transport, genVars>>

\* return err: the deferred transport.Close() runs, and then Do's err = fn()
\* receives the result.
Closure_Return(c) ==
    /\ ~panicked
    /\ pc[c] = "deferred"
    /\ transports' = [transports EXCEPT ![transport[c]] = "closed"]
    /\ transport' = [transport EXCEPT ![c] = 0]
    /\ wire' = [wire EXCEPT ![c][Len(wire[c])] = [@ EXCEPT !.closed = TRUE]]
    /\ err' = [err EXCEPT ![c] = ret[c]]
    /\ trace' = [trace EXCEPT ![c] = Append(@, Ev("fn", i[c], NoInst, ret[c], 0))]
    /\ pc' = [pc EXCEPT ![c] = "classify"]
    /\ UNCHANGED <<ctorVars, instances, iterations, panicked, doCalls, fn, count, i, backoff, ret,
                   genVars>>

\* A client is built around a Retrier, and its generated method is called.
NextClient ==
    \/ \E o \in Options : NewRetrier_Option(o)
    \/ NewRetrier_Return
    \/ \E c \in Callers :
        \/ Method_Do(c)
        \/ Closure_GetThriftClient(c)
        \/ Closure_Method(c)
        \/ Closure_Return(c)
        \/ Do_Exhausted(c)
        \/ Do_Classify(c)
        \/ Do_Backoff(c)

SpecClient == Init /\ [][NextClient]_vars

\* ======================================================= gen: titleCase
\* An identifier is a sequence of one-character strings.  The identifiers of
\* the model are ASCII, so the byte offsets the code slices at are offsets of
\* the sequence.

\* Largest number of words an identifier handed to titleCase is made of.
MaxParts == 3

Lower == <<"a", "b", "c", "d", "e", "f", "g", "h", "i", "j", "k", "l", "m", "n", "o", "p", "q", "r", "s", "t", "u", "v", "w", "x", "y", "z">>

Upper == <<"A", "B", "C", "D", "E", "F", "G", "H", "I", "J", "K", "L", "M", "N", "O", "P", "Q", "R", "S", "T", "U", "V", "W", "X", "Y", "Z">>

\* unicode.ToUpper(r) for an ASCII rune.
ToUpper(r) ==
    IF \E k \in DOMAIN Lower : Lower[k] = r
    THEN Upper[CHOOSE k \in DOMAIN Lower : Lower[k] = r]
    ELSE r

\* strings.ToUpper(s).
StringsToUpper(s) == [j \in 1..Len(s) |-> ToUpper(s[j])]

\* strings.Split(s, sep) for a separator of one character: the parts between
\* the separators; a string without separator is its only part.
RECURSIVE Split(_, _)
Split(s, sep) ==
    IF \A j \in 1..Len(s) : s[j] # sep
    THEN <<s>>
    ELSE LET k == CHOOSE k \in 1..Len(s) : s[k] = sep /\ \A j \in 1..(k - 1) : s[j] # sep
         IN  <<SubSeq(s, 1, k - 1)>> \o Split(SubSeq(s, k + 1, Len(s)), sep)

\* strings.Join(parts, sep).
RECURSIVE Join(_, _)
Join(parts, sep) ==
    IF Len(parts) = 0 THEN <<>>
    ELSE IF Len(parts) = 1 THEN parts[1]
    ELSE parts[1] \o <<sep>> \o Join(Tail(parts), sep)

initialismList == <<
    <<"a", "p", "i">>,
    <<"a", "s", "c", "i", "i">>,
    <<"c", "p", "u">>,
    <<"c", "s", "s">>,
    <<"d", "n", "s">>,
    <<"e", "o", "f">>,
    <<"g", "u", "i", "d">>,
    <<"h", "t", "m", "l">>,
    <<"h", "t", "t", "p">>,
    <<"h", "t", "t", "p", "s">>,
    <<"i", "d">>,
    <<"i", "p">>,
    <<"j", "s", "o", "n">>,
    <<"l", "h", "s">>,
    <<"q", "p", "s">>,
    <<"r", "a", "m">>,
    <<"r", "h", "s">>,
    <<"r", "p", "c">>,
    <<"s", "l", "a">>,
    <<"s", "m", "t", "p">>,
    <<"s", "s", "h">>,
    <<"t", "c", "p">>,
    <<"t", "l", "s">>,
    <<"t", "t", "l">>,
    <<"u", "d", "p">>,
    <<"u", "i">>,
    <<"u", "i", "d">>,
    <<"u", "u", "i", "d">>,
    <<"u", "r", "i">>,
    <<"u", "r", "l">>,
    <<"u", "t", "f", "8">>,
    <<"v", "m">>,
    <<"x", "m", "l">>,
    <<"x", "s", "r", "f">>,
    <<"x", "s", "s">> >>

\* The body of fixForInitialismCase's outer loop for one initialism: split,
\* replace the parts equal to the initialism by its upper case, join.
FixInitialism(s, initialism) ==
    LET parts == Split(s, "_")
    IN  Join([j \in 1..Len(parts) |->
                 IF parts[j] = initialism THEN StringsToUpper(initialism) ELSE parts[j]], "_")

\* fixForInitialismCase's loop from the k-th initialism on.  (An empty string
\* has the one part "", which no initialism equals: the loop leaves it.)
RECURSIVE FixFrom(_, _)
FixFrom(s, k) ==
    IF k > Len(initialismList) THEN s
    ELSE LET joined == FixInitialism(s, initialismList[k])
         IN  IF Len(joined) = 0 THEN joined ELSE FixFrom(joined, k + 1)

fixForInitialismCase(s) == FixFrom(s, 1)

\* Mutant: every rune that follows an underscore is kept as it is; only the
\* first rune of the string is upper-cased.
RECURSIVE MapRunes_FirstOnly(_, _, _)
MapRunes_FirstOnly(s, j, prev) ==
    IF j > Len(s) THEN <<>>
    ELSE IF s[j] = "_" THEN MapRunes_FirstOnly(s, j + 1, s[j])
    ELSE IF j = 1 THEN <<ToUpper(s[j])>> \o MapRunes_FirstOnly(s, j + 1, s[j])
    ELSE <<s[j]>> \o MapRunes_FirstOnly(s, j + 1, s[j])

\* strings.Map with titleCase's closure, from the j-th rune of s on, prev
\* being the closure's captured variable: an underscore is dropped, a rune
\* after an underscore is upper-cased, any other rune is kept.
RECURSIVE MapRunes(_, _, _)
MapRunes(s, j, prev) ==
    IF j > Len(s) THEN <<>>
    ELSE IF s[j] = "_" THEN MapRunes(s, j + 1, s[j])
    ELSE IF prev = "_" THEN <<ToUpper(s[j])>> \o MapRunes(s, j + 1, s[j])
    ELSE <<s[j]>> \o MapRunes(s, j + 1, s[j])

Args == <<"A", "r", "g", "s">>

Result == <<"R", "e", "s", "u", "l", "t">>

\* titleCase(s).  The first suffix test slices titleCased, the second one
\* slices s, the string fixForInitialismCase returned, from the offset
\* len(titleCased)-6 to its end.
titleCase(s0) ==
    LET s == fixForInitialismCase(s0)
        titleCased == MapRunes(s, 1, "_")
        n == Len(titleCased)
    IN  IF \/ (n >= Len(Args) /\ SubSeq(titleCased, n - Len(Args) + 1, n) = Args)
           \/ (n >= Len(Result) /\ SubSeq(s, n - Len(Result) + 1, Len(s)) = Result)
        THEN titleCased \o <<"_">>
        ELSE titleCased

\* The words the identifiers of the model are made of: a letter in either
\* case, an initialism in lower and in mixed case, and the two key words in
\* either case; the empty word puts underscores next to each other and at
\* either end.
Words == {
    <<>>,
    <<"s">>,
    <<"A">>,
    <<"j", "s", "o", "n">>,
    <<"j", "S", "o", "n">>,
    <<"a", "r", "g", "s">>,
    <<"A", "r", "g", "s">>,
    <<"r", "e", "s", "u", "l", "t">>,
    <<"R", "e", "s", "u", "l", "t">> }

\* The identifiers of at most n words, each word joined to the ones before it
\* directly or by an underscore.
RECURSIVE Identifiers(_)
Identifiers(n) ==
    IF n = 0 THEN { <<>> }
    ELSE LET shorter == Identifiers(n - 1)
         IN  shorter \cup { p \o sep \o w : p \in shorter, sep \in { <<>>, <<"_">> }, w \in Words }

\* The generator is about to name a service, a method or a type.
InitTitleCase ==
    /\ stage = "NewRetrier"
    /\ option = NoOption
    /\ nOptions = 0
    /\ retrier = DefaultRetrier
    /\ instances = <<>>
    /\ iterations = <<>>
    /\ panicked = FALSE
    /\ doCalls = [c \in Callers |-> 0]
    /\ pc = [c \in Callers |-> "idle"]
    /\ fn = [c \in Callers |-> NoFn]
    /\ count = [c \in Callers |-> 0]
    /\ err = [c \in Callers |-> NilErr]
    /\ i = [c \in Callers |-> 0]
    /\ backoff = [c \in Callers |-> NoInst]
    /\ ret = [c \in Callers |-> NilErr]
    /\ trace = [c \in Callers |-> <<>>]
    /\ transports = <<>>
    /\ transport = [c \in Callers |-> 0]
    /\ wire = [c \in Callers |-> <<>>]
    /\ ident \in Identifiers(MaxParts) \ { <<>> }
    /\ goName = NoName

\* Name: titleCase(ident).
TitleCase_Call ==
    /\ ~goName.called
    /\ goName' = [called |-> TRUE, val |-> titleCase(ident)]
    /\ UNCHANGED <<ctorVars, instances, iterations, panicked, doCalls, pc, fn, count, err, i,
                   backoff, ret, trace, rpcVars, ident>>

NextTitleCase == TitleCase_Call

SpecTitleCase == InitTitleCase /\ [][NextTitleCase]_vars

\* ==================================================================== claims
\* The results of the fn invocations of a trace, in order.
Results(t) == LET f == SelectSeq(t, LAMBDA e : e.op = "fn")
              IN  [j \in 1..Len(f) |-> f[j].res]

\* The indices passed to Backoff in a trace, in order.
BackoffIndices(t) == LET b == SelectSeq(t, LAMBDA e : e.op = "Backoff")
                     IN  [j \in 1..Len(b) |-> b[j].i]

\* The operation has so far behaved as one that fails its first k invocations
\* and returns nil on every later one.
FailsFirst(t, k) ==
    \A j \in 1..Len(Results(t)) : (Results(t)[j] # NilErr) <=> (j <= k)

\* The operation has so far returned an error on every invocation.
AlwaysFails(t) == \A j \in 1..Len(Results(t)) : Results(t)[j] # NilErr

\* C1: with maxAttempts = N, the default predicate and an operation that
\* fails its first K invocations and succeeds afterwards, K < N, Do returns
\* nil and has invoked the operation exactly K+1 times when it returns.
C1_SucceedsAfterKFailures ==
    \A c \in Callers :
        (pc[c] = "returned" /\ retrier.isRetriable = "AnyErr") =>
            \A k \in 0..(retrier.maxAttempts - 1) :
                FailsFirst(trace[c], k) =>
                    /\ ret[c] = NilErr
                    /\ Len(Results(trace[c])) = k + 1

\* C1 witness: the test's retrier1, makeFn(3) under MaxAttemptsOption(4), has
\* returned nil after four invocations.
C1_Witness ==
    \E c \in Callers :
        /\ pc[c] = "returned"
        /\ retrier.isRetriable = "AnyErr"
        /\ retrier.maxAttempts = 4
        /\ fn[c] = [kind |-> "makeFn", i |-> 3]
        /\ ret[c] = NilErr
        /\ Len(Results(trace[c])) = 4

\* C2: with maxAttempts = N (N >= 1, so that N-1 is a count), the default
\* predicate and an operation that fails on every invocation, Do returns a
\* non-nil error, has invoked the operation exactly N times and has called
\* Backoff exactly N-1 times in that run.
C2_ExhaustsAllAttempts ==
    \A c \in Callers :
        (/\ pc[c] = "returned"
         /\ retrier.isRetriable = "AnyErr"
         /\ retrier.maxAttempts >= 1
         /\ AlwaysFails(trace[c])) =>
            /\ ret[c] # NilErr
            /\ Len(Results(trace[c])) = retrier.maxAttempts
            /\ Len(BackoffIndices(trace[c])) = retrier.maxAttempts - 1

\* C2 witness: the test's retrier3, makeFn(3) under MaxAttemptsOption(3) and
\* the recording backoff, has returned an error after three invocations and
\* the two Backoff calls 0, 1.
C2_Witness ==
    \E c \in Callers :
        /\ pc[c] = "returned"
        /\ retrier = [maxAttempts |-> 3, isRetriable |-> "AnyErr",
                      backoffFactory |-> FunctionalBackoff("backoffFunc")]
        /\ fn[c] = [kind |-> "makeFn", i |-> 3]
        /\ doCalls[c] = 1
        /\ ret[c] # NilErr
        /\ Len(Results(trace[c])) = 3
        /\ iterations = <<0, 1>>

\* C3: within one Do run the trace is New, fn, Backoff(0), fn, Backoff(1),
\* fn, ...: every Backoff(i) directly follows the invocation of attempt i,
\* whose result was retriable, and is directly followed by nothing but the
\* invocation of attempt i+1; the indices passed are 0, 1, 2, ... without
\* gap or repeat; and no Backoff follows attempt maxAttempts-1.
C3_StrictAlternation ==
    \A c \in Callers :
        LET t == trace[c]
        IN  \A j \in 1..Len(t) :
              /\ (t[j].op = "Backoff") =>
                    /\ j > 1 /\ t[j-1].op = "fn"
                    /\ t[j-1].i = t[j].i
                    /\ retrier.isRetriable # "nil"
                    /\ CallIsRetriable(retrier.isRetriable, t[j-1].res)
                    /\ t[j].i + 1 < retrier.maxAttempts
                    /\ t[j].i = Cardinality({ m \in 1..(j-1) : t[m].op = "Backoff" })
              /\ (t[j].op = "fn") =>
                    /\ j > 1
                    /\ t[j].i = Cardinality({ m \in 1..(j-1) : t[m].op = "fn" })
                    /\ IF t[j].i = 0 THEN t[j-1].op = "New"
                       ELSE t[j-1].op = "Backoff" /\ t[j-1].i = t[j].i - 1

\* C3 witness: a run has made three attempts with Backoff(0) and Backoff(1)
\* between them and has returned after the third.
C3_Witness ==
    \E c \in Callers :
        /\ pc[c] = "returned"
        /\ retrier.maxAttempts = 3
        /\ Len(trace[c]) = 6
        /\ BackoffIndices(trace[c]) = <<0, 1>>
        /\ trace[c][6].op = "fn"

\* C4: with a predicate that is false for every input, Do invokes the
\* operation exactly once, returns that invocation's result and never calls
\* Backoff, whatever maxAttempts is.
C4_NeverRetriableInvokesOnce ==
    \A c \in Callers :
        (pc[c] = "returned" /\ retrier.isRetriable = "never") =>
            /\ Len(Results(trace[c])) = 1
            /\ ret[c] = Results(trace[c])[1]
            /\ Len(BackoffIndices(trace[c])) = 0

\* The statement of C4 for the attempt counts from 1 on.
C4_NeverRetriablePositiveAttempts ==
    \A c \in Callers :
        (pc[c] = "returned" /\ retrier.isRetriable = "never" /\ retrier.maxAttempts >= 1) =>
            /\ Len(Results(trace[c])) = 1
            /\ ret[c] = Results(trace[c])[1]
            /\ Len(BackoffIndices(trace[c])) = 0

\* C5: in every Do run, for every operation and predicate, the operation is
\* invoked at most maxAttempts times, and an invocation whose result the
\* predicate rejects is the last one of the run.
C5_AtMostMaxAttempts ==
    \A c \in Callers :
        LET res == Results(trace[c])
        IN  /\ Len(res) <= retrier.maxAttempts
            /\ \A j \in 1..(Len(res) - 1) :
                  CallIsRetriable(retrier.isRetriable, res[j])
            /\ (pc[c] = "loop" /\ Len(res) >= 1) =>
                  CallIsRetriable(retrier.isRetriable, res[Len(res)])

\* C5 witness: under the transient-only predicate and four permitted
\* attempts a run has stopped at its second invocation, which returned a
\* permanent error.
C5_Witness ==
    \E c \in Callers :
        /\ pc[c] = "returned"
        /\ retrier.isRetriable = "isTransient"
        /\ retrier.maxAttempts = 4
        /\ Len(Results(trace[c])) = 2
        /\ Results(trace[c])[1].kind = "transient"
        /\ Results(trace[c])[2].kind = "permanent"

\* C6: the value Do returns is the very result of the last invocation of the
\* run: the rejected result on early exit, the error of the final attempt
\* when every attempt produced a retriable error.
C6_ReturnsLastResult ==
    \A c \in Callers :
        LET res == Results(trace[c])
        IN  (pc[c] = "returned" /\ Len(res) >= 1) =>
                /\ ret[c] = res[Len(res)]
                /\ CallIsRetriable(retrier.isRetriable, ret[c]) =>
                      Len(res) = retrier.maxAttempts

\* C6 witness: after three failing attempts Do has returned the error of the
\* third, which is not the error of the first.
C6_Witness ==
    \E c \in Callers :
        /\ pc[c] = "returned"
        /\ retrier.isRetriable = "AnyErr"
        /\ Len(Results(trace[c])) = 3
        /\ ret[c] = NewErr("err", 3)
        /\ Results(trace[c])[1] = NewErr("err", 1)

\* C7: every Retrier NewRetrier returns has maxAttempts >= 1, so every Do
\* run that returns has invoked the operation at least once.
C7_PositiveAttempts ==
    /\ stage = "built" => retrier.maxAttempts >= 1
    /\ \A c \in Callers : pc[c] = "returned" => Len(Results(trace[c])) >= 1

\* C8: with a nil predicate or a nil backoff factory configured, Do does not
\* panic.
C8_NilOptionsDoNotPanic ==
    /\ ~panicked
    /\ \A c \in Callers : pc[c] # "panic"

\* C9: NewRetrier starts from maxAttempts = 1, the AnyErr predicate and the
\* decorrelated factory with 500ms and 60s; every option sets its own field
\* to its argument and leaves the other two as they were; and NewRetrier
\* returns the Retrier so built.
C9_Start ==
    (stage = "NewRetrier" /\ nOptions = 0) =>
        retrier = [maxAttempts    |-> 1,
                   isRetriable    |-> "AnyErr",
                   backoffFactory |-> NewDecorrelatedExponentialBackoff(500, 60000)]

C9_Step ==
    /\ (stage = "NewRetrier" /\ nOptions' = nOptions + 1) =>
          CASE option'.opt = "MaxAttemptsOption" ->
                 /\ retrier'.maxAttempts = option'.attempts
                 /\ retrier'.isRetriable = retrier.isRetriable
                 /\ retrier'.backoffFactory = retrier.backoffFactory
            [] option'.opt = "RetriableOption" ->
                 /\ retrier'.maxAttempts = retrier.maxAttempts
                 /\ retrier'.isRetriable = option'.isRetriable
                 /\ retrier'.backoffFactory = retrier.backoffFactory
            [] option'.opt = "BackoffOption" ->
                 /\ retrier'.maxAttempts = retrier.maxAttempts
                 /\ retrier'.isRetriable = retrier.isRetriable
                 /\ retrier'.backoffFactory = option'.backoff
    /\ (stage = "NewRetrier" /\ stage' = "built") => retrier' = retrier

C9_DefaultsAndOptions == []C9_Start /\ [][C9_Step]_vars

\* C9 witness: BackoffOption has just been applied after MaxAttemptsOption(3):
\* the factory is the fixed backoff, the attempt count is still 3 and the
\* predicate is still the default.
C9_Witness ==
    /\ stage = "NewRetrier"
    /\ nOptions = 2
    /\ option = BackoffOption(NewFixedBackoff(1000))
    /\ retrier = [maxAttempts    |-> 3,
                  isRetriable    |-> "AnyErr",
                  backoffFactory |-> NewFixedBackoff(1000)]

\* C10: in every Do run New is called exactly once, before the first
\* invocation of the operation, and every Backoff call of the run is made on
\* the instance that call returned.
C10_NewOncePerRun ==
    \A c \in Callers :
        LET t == trace[c]
        IN  /\ pc[c] \in {"loop", "classify", "backoff", "returned"} => Len(t) >= 1
            /\ Len(t) >= 1 => (t[1].op = "New" /\ t[1].inst = backoff[c])
            /\ \A j \in 2..Len(t) : t[j].op # "New"
            /\ \A j \in 1..Len(t) : t[j].op = "Backoff" => t[j].inst = t[1].inst

\* C10 witness: the second Do call on a Retrier with the decorrelated factory
\* has paused on the second instance allocated, the one its New returned.
C10_Witness ==
    \E c \in Callers :
        /\ doCalls[c] = 2
        /\ backoff[c] = [kind |-> "decorrelatedExponentialBackoff", id |-> 2]
        /\ Len(trace[c]) >= 3
        /\ trace[c][3].op = "Backoff"
        /\ trace[c][3].inst = backoff[c]

\* The durations the Backoff/getDuration calls of a trace returned, in order.
Durations(t) == LET b == SelectSeq(t, LAMBDA e : e.op \in {"Backoff", "getDuration"})
                IN  [j \in 1..Len(b) |-> b[j].d]

\* d <= 3 * p, for p >= 0, without leaving the word.
AtMostTriple(d, p) == p > Quot(MaxInt64, 3) \/ d <= 3 * p

\* C11: on a fresh decorrelated instance with bounds 0 <= minWait <= maxWait
\* (the bounds for which the interval below is not empty), the first
\* getDuration call returns exactly minWait, and every later call returns a
\* duration d with minWait <= d <= min(maxWait, 3 * the previous duration).
C11_DecorrelatedBounds ==
    \A c \in Callers :
        LET f == retrier.backoffFactory
            ds == Durations(trace[c])
        IN  (/\ backoff[c].kind = "decorrelatedExponentialBackoff"
             /\ 0 <= f.minWait
             /\ f.minWait <= f.maxWait) =>
                \A j \in 1..Len(ds) :
                    IF j = 1
                    THEN ds[j] = f.minWait
                    ELSE /\ f.minWait <= ds[j]
                         /\ ds[j] <= f.maxWait
                         /\ AtMostTriple(ds[j], ds[j - 1])

\* C11 witness: the instance of the test, bounds 100 and 30000, has returned
\* 100, then 200, then 100.
C11_Witness ==
    \E c \in Callers :
        /\ retrier.backoffFactory = NewDecorrelatedExponentialBackoff(100, 30000)
        /\ backoff[c].kind = "decorrelatedExponentialBackoff"
        /\ Durations(trace[c]) = <<100, 200, 100>>

\* C12: every getDuration call on a decorrelated instance records the
\* duration it returns as the instance's last wait, the value the next call
\* triples for the upper bound of its draw.
C12_RecordsLastWait ==
    \A c \in Callers :
        LET ds == Durations(trace[c])
        IN  (backoff[c].kind = "decorrelatedExponentialBackoff" /\ Len(ds) >= 1) =>
                instances[backoff[c].id].lastWait = ds[Len(ds)]

\* What holds in place of C12: the last wait stays at minWait once the first
\* call has set it, so no duration reaches 3 * minWait.
C12_LastWaitStaysAtMinWait ==
    \A c \in Callers :
        LET f == retrier.backoffFactory
            ds == Durations(trace[c])
        IN  (/\ backoff[c].kind = "decorrelatedExponentialBackoff"
             /\ 0 < f.minWait
             /\ f.minWait <= f.maxWait
             /\ Len(ds) >= 1) =>
                /\ instances[backoff[c].id].lastWait = f.minWait
                /\ \A j \in 1..Len(ds) :
                      f.minWait <= Quot(MaxInt64, 3) => ds[j] < 3 * f.minWait

\* The getDuration events of a trace, in order.
GetDurations(t) == SelectSeq(t, LAMBDA e : e.op = "getDuration")

\* min(p * 2^n, maxWait) for 0 < p <= maxWait, by n saturating doublings.
RECURSIVE Doubled(_, _, _)
Doubled(p, maxWait, n) ==
    IF n = 0 \/ p = maxWait
    THEN p
    ELSE Doubled(IF p > maxWait - p THEN maxWait ELSE 2 * p, maxWait, n - 1)

\* The durations the spec lists for minWait = 100, maxWait = 30000.
ExpectedVals1 == <<100, 200, 400, 800, 1600, 3200, 6400, 12800, 25600, 30000>>

\* C13: without jitter and with 0 < minWait <= maxWait, getDuration(i) returns
\* min(minWait * 2^i, maxWait) for every i; for minWait = 100 and
\* maxWait = 30000 that is 100, 200, ..., 25600, 30000 for i = 0..9 and 30000
\* for every larger i; and the duration does not decrease as i grows.
C13_ExponentialWithoutJitter ==
    \A c \in Callers :
        LET f == retrier.backoffFactory
            g == GetDurations(trace[c])
        IN  (/\ backoff[c].kind = "ExponentialBackoff"
             /\ ~f.jitter
             /\ 0 < f.minWait
             /\ f.minWait <= f.maxWait) =>
                /\ \A j \in 1..Len(g) :
                      /\ g[j].d = Doubled(f.minWait, f.maxWait, g[j].i)
                      /\ (f.minWait = 100 /\ f.maxWait = 30000) =>
                            g[j].d = IF g[j].i <= 9 THEN ExpectedVals1[g[j].i + 1] ELSE 30000
                /\ \A j, l \in 1..Len(g) : g[j].i <= g[l].i => g[j].d <= g[l].d

\* C13 witness: backoff1 of the test has returned 25600 for i = 8 and the
\* clamped 30000 for i = 9.
C13_Witness ==
    \E c \in Callers :
        /\ retrier.backoffFactory = ExponentialBackoffLit(100, 30000, FALSE)
        /\ Len(GetDurations(trace[c])) = 2
        /\ GetDurations(trace[c])[1].i = 8
        /\ GetDurations(trace[c])[1].d = 25600
        /\ GetDurations(trace[c])[2].i = 9
        /\ GetDurations(trace[c])[2].d = 30000

\* a * 2^n leaves the word.
RECURSIVE ShiftLeavesWord(_, _)
ShiftLeavesWord(a, n) ==
    /\ n > 0
    /\ \/ (a > 0 /\ a > MaxInt64 - a)
       \/ (a < 0 /\ a < MinInt64 - a)
       \/ ShiftLeavesWord(a + a, n - 1)

\* The durations of a trace are as the overflow policy wants them: none is
\* negative, and where minWait << i leaves the word the exponential strategy
\* without jitter has returned maxWait.
OverflowPolicy(f, t) ==
    \A j \in 1..Len(t) :
        t[j].op = "getDuration" =>
            /\ t[j].d >= 0
            /\ (/\ f.kind = "ExponentialBackoff"
                /\ ~f.jitter
                /\ \/ t[j].i >= numUint64Bits - 1
                   \/ ShiftLeavesWord(f.minWait, t[j].i)) => t[j].d = f.maxWait

\* C14: for every attempt index and every minWait <= maxWait of the word,
\* negative ones included, the exponential and the decorrelated strategy
\* never return a wrapped or negative duration, and the exponential one
\* returns maxWait wherever minWait << i would leave the word.
C14_NoWrappedOrNegativeDuration ==
    \A c \in Callers :
        LET f == retrier.backoffFactory
        IN  (/\ f.kind \in {"ExponentialBackoff", "DecorrelatedExponentialBackoff"}
             /\ f.minWait <= f.maxWait) => OverflowPolicy(f, trace[c])

\* What holds in place of C14: the same for 0 <= minWait <= maxWait, and the
\* candidate maximum of a decorrelated instance is MaxInt64 wherever
\* 3 * lastWait would leave the word.
C14_NonNegativeBounds ==
    \A c \in Callers :
        LET f == retrier.backoffFactory
        IN  (/\ f.kind \in {"ExponentialBackoff", "DecorrelatedExponentialBackoff"}
             /\ 0 <= f.minWait
             /\ f.minWait <= f.maxWait) =>
                /\ OverflowPolicy(f, trace[c])
                /\ \A n \in 1..Len(instances) :
                      instances[n].lastWait > Quot(MaxInt64, 3) =>
                          DecorrelatedGetDuration(instances[n], RandDen - 1).d
                              = minInt64(f.maxWait,
                                         Scale(MaxInt64 - f.minWait, RandDen - 1, RandDen) + f.minWait)

\* The test's overflow cases at the width of the model: minWait = 100 under
\* maxWait = MaxInt64 has returned MaxInt64 at the last two indices below the
\* width.
C14_OverflowClampsReached ==
    \E c \in Callers :
        /\ retrier.backoffFactory = ExponentialBackoffLit(100, MaxInt64, FALSE)
        /\ Len(GetDurations(trace[c])) = 2
        /\ GetDurations(trace[c])[1].i = numUint64Bits - 2
        /\ GetDurations(trace[c])[1].d = MaxInt64
        /\ GetDurations(trace[c])[2].i = numUint64Bits - 1
        /\ GetDurations(trace[c])[2].d = MaxInt64

\* The wrapped product is reached: minWait = -2^30 under maxWait = 10 passes
\* the guard at i = 2, minWait << 2 wraps around to 0, and 0 is returned.
C14_WrappedProductReached ==
    \E c \in Callers :
        /\ retrier.backoffFactory = ExponentialBackoffLit(-1073741824, 10, FALSE)
        /\ Len(GetDurations(trace[c])) >= 1
        /\ GetDurations(trace[c])[1].i = 2
        /\ GetDurations(trace[c])[1].d = 0
        /\ ShiftLeavesWord(-1073741824, 2)

\* C15: with jitter and 0 < minWait <= maxWait, getDuration(i) returns for
\* every i a duration d with expected/2 <= d <= expected, expected being what
\* the same bounds return without jitter, and d is never below minWait.
C15_ExponentialWithJitter ==
    \A c \in Callers :
        LET f == retrier.backoffFactory
            g == GetDurations(trace[c])
        IN  (/\ backoff[c].kind = "ExponentialBackoff"
             /\ f.jitter
             /\ 0 < f.minWait
             /\ f.minWait <= f.maxWait) =>
                \A j \in 1..Len(g) :
                    LET expected == ExponentialGetDuration([f EXCEPT !.jitter = FALSE], g[j].i, 0)
                    IN  /\ expected = Doubled(f.minWait, f.maxWait, g[j].i)
                        /\ Quot(expected, 2) <= g[j].d
                        /\ g[j].d <= expected
                        /\ f.minWait <= g[j].d

\* C15 witness: backoff0 of the test has returned 600 for i = 3, where 800
\* is expected, and the floor minWait = 100 for i = 0.
C15_Witness ==
    \E c \in Callers :
        /\ retrier.backoffFactory = NewExponentialBackoff(100, 30000)
        /\ \E g \in {GetDurations(trace[c])} :
              /\ Len(g) = 2
              /\ g[1].i = 3 /\ g[1].d = 600
              /\ g[2].i = 0 /\ g[2].d = 100

\* The runs in progress pause on instances of their own, and the first pause
\* of a run is exactly minWait.
C16_State ==
    retrier.backoffFactory.kind = "DecorrelatedExponentialBackoff" =>
        /\ \A c \in DOMAIN pc :
              Len(Durations(trace[c])) >= 1 =>
                  Durations(trace[c])[1] = retrier.backoffFactory.minWait
        /\ \A c1, c2 \in DOMAIN pc :
              (/\ c1 # c2
               /\ backoff[c1].kind = "decorrelatedExponentialBackoff"
               /\ backoff[c2].kind = "decorrelatedExponentialBackoff") =>
                  backoff[c1].id # backoff[c2].id

\* A run that begins is handed an instance allocated by its own New call, with
\* no last wait; an instance changes only in a Backoff call of the run that
\* holds it.
C16_Step ==
    retrier.backoffFactory.kind = "DecorrelatedExponentialBackoff" =>
        /\ \A c \in DOMAIN pc :
              doCalls'[c] # doCalls[c] =>
                  /\ Len(instances') = Len(instances) + 1
                  /\ backoff'[c].id = Len(instances')
                  /\ instances'[backoff'[c].id].lastWait = 0
        /\ \A n \in 1..Len(instances) :
              instances'[n] # instances[n] =>
                  \E c \in DOMAIN pc :
                      /\ backoff[c].id = n
                      /\ pc[c] = "backoff"
                      /\ pc'[c] = "loop"

\* C16: for Do runs on one Retrier whose factory is a
\* DecorrelatedExponentialBackoff, one after another or at the same time and
\* in every interleaving, each run is handed an instance of its own with no
\* prior wait, the first pause of each run is exactly minWait, and no run
\* reads or writes the last wait of another run.
C16_RunsHaveOwnInstances == []C16_State /\ [][C16_Step]_vars

\* C16 witness: both goroutines are in their second run at the same time,
\* each has paused once, for minWait, on the instance its run allocated, and
\* the four instances allocated so far are distinct.
C16_Witness ==
    /\ retrier.backoffFactory = NewDecorrelatedExponentialBackoff(100, 30000)
    /\ DOMAIN pc = Goroutines
    /\ \A c \in Goroutines :
          /\ doCalls[c] = 2
          /\ pc[c] = "loop"
          /\ Durations(trace[c]) = <<100>>
          /\ instances[backoff[c].id].lastWait = 100
    /\ Len(instances) = 4
    /\ backoff["g1"].id # backoff["g2"].id

\* The Backoff events of a trace, in order.
Backoffs(t) == SelectSeq(t, LAMBDA e : e.op = "Backoff")

\* C17: every Backoff call on a FixedBackoff pauses for exactly the duration
\* the strategy was constructed with, whatever index is passed and whatever
\* calls were made before.
C17_FixedPause ==
    \A c \in DOMAIN pc :
        backoff[c].kind = "FixedBackoff" =>
            /\ retrier.backoffFactory \in {NewFixedBackoff(1000), NewFixedBackoff(DefaultMinWait)}
            /\ \A j \in 1..Len(Backoffs(trace[c])) :
                  Backoffs(trace[c])[j].d = retrier.backoffFactory.wait

\* C17 witness: the strategy of the test, NewFixedBackoff(1000), has paused
\* 1000 for index 500 and again 1000 for the largest index.
C17_Witness ==
    \E c \in DOMAIN pc :
        /\ retrier.backoffFactory = NewFixedBackoff(1000)
        /\ Len(Backoffs(trace[c])) = 2
        /\ Backoffs(trace[c])[1].i = 500
        /\ Backoffs(trace[c])[1].d = 1000
        /\ Backoffs(trace[c])[2].i = MaxInt64
        /\ Backoffs(trace[c])[2].d = 1000

\* The strategies that are their own instances.
Stateless == {"FunctionalBackoff", "FixedBackoff", "ExponentialBackoff"}

\* d is a duration strategy f can return for index idx.
InDurationRange(d, f, idx) ==
    CASE f.kind = "FunctionalBackoff"  -> d = 0
      [] f.kind = "FixedBackoff"       -> d = f.wait
      [] f.kind = "ExponentialBackoff" ->
            \E k \in 0..(RandDen - 1) : d = ExponentialGetDuration(f, idx, k)

\* New has returned the receiver itself and allocated nothing; every call
\* made so far has returned a duration from the range of its index, and two
\* calls with the same index on a strategy without jitter the same duration.
C18_State ==
    \A c \in DOMAIN pc :
        LET f == retrier.backoffFactory
            t == trace[c]
        IN  (stage = "built" /\ f.kind \in Stateless /\ Len(t) >= 1) =>
                /\ t[1].op = "New"
                /\ t[1].inst = [kind |-> f.kind, id |-> 0]
                /\ backoff[c] = t[1].inst
                /\ instances = <<>>
                /\ f \in BackoffInputs \cup SharedFactories \cup Factories
                /\ \A j \in 2..Len(t) :
                      t[j].op \in {"Backoff", "getDuration"} =>
                          /\ InDurationRange(t[j].d, f, t[j].i)
                          /\ \A l \in 2..Len(t) :
                                (/\ t[l].op = t[j].op
                                 /\ t[l].i = t[j].i
                                 /\ ~f.jitter) => t[l].d = t[j].d

\* No step taken after construction changes a field of a stateless strategy.
C18_Step ==
    (stage = "built" /\ retrier.backoffFactory.kind \in Stateless) =>
        retrier'.backoffFactory = retrier.backoffFactory

\* C18: the stateless strategies, FunctionalBackoff (NoopBackoff among them),
\* FixedBackoff and ExponentialBackoff, return the receiver itself from New,
\* no Backoff or getDuration call changes a field of the strategy, and the
\* duration (with jitter: the range of durations) returned for an index is
\* the same whatever calls were made before.
C18_StatelessStrategies == []C18_State /\ [][C18_Step]_vars

\* C18 witness: backoff1 of the test has been asked for index 3 twice, has
\* returned 800 both times, and is as it was constructed.
C18_Witness ==
    \E c \in DOMAIN pc :
        /\ retrier.backoffFactory = ExponentialBackoffLit(100, 30000, FALSE)
        /\ backoff[c] = [kind |-> "ExponentialBackoff", id |-> 0]
        /\ Len(GetDurations(trace[c])) = 2
        /\ \A j \in 1..2 : GetDurations(trace[c])[j].i = 3 /\ GetDurations(trace[c])[j].d = 800

\* No step of a Do run changes a field of the Retrier, the fields of the
\* factory it holds among them.
C19_Step == stage = "built" => retrier' = retrier

\* C19: Do never changes the Retrier it is called on: maxAttempts,
\* isRetriable and backoffFactory are after any number of Do runs, one after
\* another or at the same time, what they were before; and New of a
\* DecorrelatedExponentialBackoff leaves the factory's minWait and maxWait
\* as they were.
C19_DoLeavesRetrier == [][C19_Step]_vars

\* C19 witness: both goroutines have returned from their second run on a
\* Retrier with the decorrelated factory, four instances have been
\* allocated, and the Retrier is as NewRetrier returned it.
C19_Witness ==
    /\ DOMAIN pc = Goroutines
    /\ \A c \in Goroutines : doCalls[c] = 2 /\ pc[c] = "returned" /\ Len(trace[c]) >= 5
    /\ Len(instances) = 4
    /\ retrier = [maxAttempts    |-> SharedAttempts,
                  isRetriable    |-> "AnyErr",
                  backoffFactory |-> NewDecorrelatedExponentialBackoff(100, 30000)]

\* The transports that are open.
OpenTransports == { id \in 1..Len(transports) : transports[id] = "open" }

\* C20: in a run of the generated client method, an attempt holds an open
\* transport only between its GetTransport and the return of the closure: the
\* transport is closed before the attempt's result reaches Do, after a remote
\* call that succeeded and after one that failed; an attempt whose
\* GetTransport failed has returned that error and made no remote call; at
\* most one transport is open at any time, and none while Do classifies a
\* result, pauses, or has returned.
C20_TransportClosedPerAttempt ==
    \A c \in DOMAIN pc :
        fn[c] = RPCFn =>
            LET w == wire[c]
                res == Results(trace[c])
            IN  /\ Cardinality(OpenTransports) <= 1
                /\ IF pc[c] \in {"call", "deferred"}
                   THEN /\ OpenTransports = {transport[c]}
                        /\ Len(w) = Len(res) + 1
                        /\ w[Len(w)].id = transport[c]
                   ELSE /\ OpenTransports = {}
                        /\ transport[c] = 0
                        /\ Len(w) = Len(res)
                /\ \A j \in 1..Len(res) :
                      IF w[j].get # NilErr
                      THEN /\ ~w[j].called
                           /\ w[j].id = 0
                           /\ res[j] = w[j].get
                      ELSE /\ w[j].called
                           /\ w[j].closed
                           /\ transports[w[j].id] = "closed"
                           /\ res[j] = w[j].res

\* C20 witness: a method call has returned nil after three attempts with two
\* pauses between them: the first got no transport, the second got one and
\* its remote call failed, the third got one and its remote call succeeded;
\* both transports are closed.
C20_Witness ==
    \E c \in DOMAIN pc :
        /\ fn[c] = RPCFn
        /\ pc[c] = "returned"
        /\ ret[c] = NilErr
        /\ Len(wire[c]) = 3
        /\ wire[c][1].get # NilErr
        /\ wire[c][2].called /\ wire[c][2].res # NilErr /\ wire[c][2].closed
        /\ wire[c][3].called /\ wire[c][3].res = NilErr /\ wire[c][3].closed
        /\ Len(BackoffIndices(trace[c])) = 2
        /\ transports = <<"closed", "closed">>

\* ---------------------------------------------------------------- titleCase
\* The positions of s that hold no underscore, in order.
Letters(s) == SelectSeq([j \in 1..Len(s) |-> j], LAMBDA j : s[j] # "_")

\* The underscore-delimited part of s that position j lies in.
PartAt(s, j) ==
    LET from == CHOOSE a \in 1..j :
                    /\ a = 1 \/ s[a - 1] = "_"
                    /\ \A k \in a..j : s[k] # "_"
        to   == CHOOSE b \in j..Len(s) :
                    /\ b = Len(s) \/ s[b + 1] = "_"
                    /\ \A k \in j..b : s[k] # "_"
    IN  SubSeq(s, from, to)

\* p is one of the listed initialisms, in lower case as listed.
IsInitialism(p) == \E k \in 1..Len(initialismList) : initialismList[k] = p

\* The title-cased form of s: the underscores removed, the first letter and
\* every letter that follows an underscore upper-cased, the parts that are
\* initialisms upper-cased as a whole, every other character as it is in s.
TitleCased(s) ==
    LET at == Letters(s)
    IN  [n \in 1..Len(at) |->
            LET j == at[n]
            IN  IF j = 1 \/ s[j - 1] = "_" \/ IsInitialism(PartAt(s, j))
                THEN ToUpper(s[j])
                ELSE s[j]]

\* t ends in the key word.
EndsIn(t, word) == Len(t) >= Len(word) /\ SubSeq(t, Len(t) - Len(word) + 1, Len(t)) = word

\* titleCase appended its trailing underscore (no other underscore survives
\* strings.Map).
Appended == Len(goName.val) > 0 /\ goName.val[Len(goName.val)] = "_"

\* C21: titleCase appends a trailing "_" to its result exactly for the inputs
\* whose title-cased form ends in "Args" or ends in "Result".
C21_KeyWordSuffix ==
    goName.called =>
        (Appended <=> (EndsIn(TitleCased(ident), Args) \/ EndsIn(TitleCased(ident), Result)))

\* What the code does instead.  The "Args" test is the stated one; the
\* "Result" test passes only for an input without underscore that ends in
\* "Result" as written, and never for an input that does not end in "Result"
\* once title-cased.
C21_SuffixAsCoded ==
    goName.called =>
        (Appended <=>
            \/ EndsIn(TitleCased(ident), Args)
            \/ /\ EndsIn(ident, Result)
               /\ \A j \in 1..Len(ident) : ident[j] # "_")

\* The inputs C21 fails for are reached: "a_result"-like and "result"-like
\* identifiers come back without the underscore.
C21_ResultWithoutSuffix ==
    /\ goName.called
    /\ ident = <<"s", "_", "r", "e", "s", "u", "l", "t">>
    /\ goName.val = <<"S", "R", "e", "s", "u", "l", "t">>

\* What strings.Map returned: the result without the underscore the key word
\* rule appended.
Mapped == IF Appended THEN SubSeq(goName.val, 1, Len(goName.val) - 1) ELSE goName.val

\* C22: titleCase removes every underscore of its input and upper-cases the
\* first character and each character that directly follows an underscore;
\* a part that equals a listed initialism exactly, in lower case, is
\* upper-cased as a whole, a part that differs from it in case is not; every
\* other character is left as it is.
C22_TitleCased == goName.called => Mapped = TitleCased(ident)

\* C22 witness: titleCase("s_json_jSon") has returned "SJSONJSon": the
\* initialism between the underscores is upper-cased as a whole, the part
\* that differs from it in case only in its first letter.
C22_Witness ==
    /\ goName.called
    /\ ident = <<"s", "_", "j", "s", "o", "n", "_", "j", "S", "o", "n">>
    /\ goName.val = <<"S", "J", "S", "O", "N", "J", "S", "o", "n">>

\* ------------------------------------------------------------- termination
\* The run of caller c is under way: Do has allocated its backoff instance
\* and has neither returned nor panicked.
Running(c) == pc[c] \in {"loop", "classify", "backoff"}

\* C23: every Do run returns, provided the invocations of the operation, of
\* the predicate and of Backoff return: no run ends in any other way than by
\* returning.  (A run that panicked never returns; a panic in the predicate's
\* invocation is an invocation that does not return, which the proviso
\* excludes.)
C23_EveryRunCanReturn ==
    \A c \in DOMAIN pc :
        pc[c] = "panic" => (retrier.isRetriable = "nil" /\ Invocations(trace[c]) >= 1)

\* The run lost to C23: Do has panicked in r.backoffFactory.New(), before any
\* invocation of the operation, of the predicate or of Backoff.
C23_PanicBeforeAnyInvocation ==
    \E c \in DOMAIN pc :
        /\ pc[c] = "panic"
        /\ retrier.backoffFactory.kind = "nil"
        /\ trace[c] = <<>>

\* The loop of Do by itself: a run that is under way ends, by returning or
\* by the panic of a nil predicate (a property of SpecFair).
C23_RunsEnd ==
    \A c \in Callers : Running(c) ~> (pc[c] \in {"returned", "panic"})

\* The counter never wraps and never passes maxAttempts, also for a Retrier
\* whose maxAttempts is the largest value of the type: i+1 is computed only
\* while i < maxAttempts, and every step of a run leaves i or adds one to it.
C23_CounterInRange ==
    \A c \in DOMAIN pc :
        /\ i[c] <= retrier.maxAttempts
        /\ pc[c] \in {"classify", "backoff"} => i[c] < retrier.maxAttempts
        /\ Invocations(trace[c]) <= retrier.maxAttempts

C23_CounterStep ==
    \A c \in DOMAIN pc :
        (Running(c) /\ i'[c] # i[c]) => (i'[c] = i[c] + 1 /\ i[c] < MaxUint64)

C23_CounterNeverWraps == []C23_CounterInRange /\ [][C23_CounterStep]_vars

\* A run with the largest maxAttempts of the type has used every attempt and
\* returned the last error.
C23_FullRangeRunReturned ==
    \E c \in DOMAIN pc :
        /\ pc[c] = "returned"
        /\ retrier.maxAttempts = MaxUint64
        /\ i[c] = MaxUint64
        /\ Invocations(trace[c]) = MaxUint64
        /\ ret[c] # NilErr

====
